---- MODULE Spec2Model ----
(***************************************************************************)
(* A model of formatron's formatter.py: the FormatterBuilder (template     *)
(* scanner, combinators, build) and the Formatter runtime (accept_token,   *)
(* on_completion, reset).                                                  *)
(*                                                                         *)
(* Python strings are sequences of one-character strings, so that string   *)
(* formatting, repr() and slicing are computed and not assumed.            *)
(***************************************************************************)
EXTENDS Integers, Sequences, FiniteSets, TLC

VARIABLES
    formatter_builder_counter, \* FormatterBuilder._formatter_builder_counter
    builders,                  \* the FormatterBuilder objects, in creation order
    lists,                     \* heap of the Python list objects that hold extractors
    formatters,                \* the Formatter objects, in creation order
    engines_constructed,       \* how many times kbnf.Engine(...) was invoked
    call,                      \* the last API call: its arguments, outcome, pre-state
    threads,                   \* threads that are inside FormatterBuilder.__init__
    ghost,                     \* per Formatter: history the claims are stated over
    kbnf                       \* what this kbnf answers to a token after Finished

vars == <<formatter_builder_counter, builders, lists, formatters,
          engines_constructed, call, threads, ghost, kbnf>>

(***************************************************************************)
(* Bounds of the model.                                                    *)
(***************************************************************************)
MaxBuilders == 2
MaxCalls == 2
MaxThreads == 3
MaxTemplateLen == 5
MaxFormatters == 2
MaxTokens == 3
MaxMainRule == 3
MaxResets == 1

(***************************************************************************)
(* Strings.                                                                *)
(***************************************************************************)
None == <<"None">>

Letters ==
    {"a", "b", "c", "d", "e", "f", "g", "h", "i", "j", "k", "l", "m", "n",
     "o", "p", "q", "r", "s", "t", "u", "v", "w", "x", "y", "z"}

DigitChars == <<"0", "1", "2", "3", "4", "5", "6", "7", "8", "9">>

Digits == {DigitChars[i] : i \in 1..10}

\* str(n) for a natural number n
RECURSIVE IntToStr(_)
IntToStr(n) ==
    IF n < 10 THEN <<DigitChars[n + 1]>>
    ELSE IntToStr(n \div 10) \o <<DigitChars[(n % 10) + 1]>>

\* str.isidentifier() on the model's alphabet
isidentifier(s) ==
    /\ Len(s) > 0
    /\ s[1] \in Letters \cup {"_"}
    /\ \A i \in 1..Len(s) : s[i] \in Letters \cup Digits \cup {"_"}

\* sep.join(parts)
RECURSIVE Join(_, _)
Join(parts, sep) ==
    IF parts = <<>> THEN <<>>
    ELSE IF Len(parts) = 1 THEN parts[1]
    ELSE parts[1] \o sep \o Join(Tail(parts), sep)

RECURSIVE ReprBody(_, _)
ReprBody(s, q) ==
    IF s = <<>> THEN <<>>
    ELSE LET c == Head(s)
             e == IF c = "\\" THEN <<"\\", "\\">>
                  ELSE IF c = "\n" THEN <<"\\", "n">>
                  ELSE IF c = q THEN <<"\\", q>>
                  ELSE <<c>>
         IN  e \o ReprBody(Tail(s), q)

\* repr(s) of a Python str: quoted, backslashes and newlines escaped
Repr(s) ==
    LET hasSingle == \E i \in 1..Len(s) : s[i] = "'"
        hasDouble == \E i \in 1..Len(s) : s[i] = "\""
        q == IF hasSingle /\ ~hasDouble THEN "\"" ELSE "'"
    IN  <<q>> \o ReprBody(s, q) \o <<q>>

\* [f(x) for x in xs]
RECURSIVE MapRepr(_)
MapRepr(xs) == IF xs = <<>> THEN <<>> ELSE <<Repr(Head(xs))>> \o MapRepr(Tail(xs))

\* d[k] = v on a Python dict
DictSet(d, k, v) == [n \in (DOMAIN d) \cup {k} |-> IF n = k THEN v ELSE d[n]]

EmptyDict == [n \in {} |-> None]

(***************************************************************************)
(* Extractors (extractor.py): value objects, immutable once constructed.   *)
(***************************************************************************)
Extractor(kind, capture_name, nonterminal, arg) ==
    [kind |-> kind, capture_name |-> capture_name,
     nonterminal |-> nonterminal, arg |-> arg]

LiteralExtractor(literal) == Extractor("literal", None, Repr(literal), literal)

RegexExtractor(regex, capture_name, nonterminal) ==
    Extractor("regex", capture_name, nonterminal, regex)

(***************************************************************************)
(* FormatterBuilder.                                                       *)
(***************************************************************************)
\* FormatterBuilder.__init__, given the instance id it read and the address
\* of its fresh extractor list
FormatterBuilder(instance_id, addr) ==
    [counter |-> 0,
     main_rule |-> <<>>,
     rules |-> <<>>,
     capture_names |-> {},
     nonterminal_to_extractor |-> EmptyDict,
     extractors |-> addr,
     instance_id |-> instance_id]

\* _assert_capture_name_valid without its second assertion
assert_capture_name_valid_once(b, capture_name) ==
    IF ~isidentifier(capture_name) THEN "InvalidCaptureName" ELSE "ok"

\* _assert_capture_name_valid: "ok", or the assertion that fails
assert_capture_name_valid(b, capture_name) ==
    IF ~isidentifier(capture_name) THEN "InvalidCaptureName"
    ELSE IF capture_name \in b.capture_names THEN "DuplicateCaptureName"
    ELSE "ok"

\* the nonterminal without the builder's instance id
NonterminalNameLocal(name, middle, instance_id) ==
    <<"_", "_">> \o name \o <<"_">> \o middle

\* f"__{name}_{middle}_{instance_id}"
NonterminalName(name, middle, instance_id) ==
    <<"_", "_">> \o name \o <<"_">> \o middle \o <<"_">> \o IntToStr(instance_id)

\* _create_nonterminal: the builder after the call, the nonterminal, the outcome
create_nonterminal(b, capture_name, name) ==
    IF capture_name # None
    THEN LET verdict == assert_capture_name_valid(b, capture_name)
         IN  IF verdict # "ok"
             THEN [err |-> verdict, b |-> b, nonterminal |-> <<>>]
             ELSE [err |-> "ok",
                   b |-> [b EXCEPT !.capture_names = @ \cup {capture_name}],
                   nonterminal |-> NonterminalName(name, capture_name, b.instance_id)]
    ELSE [err |-> "ok",
          b |-> [b EXCEPT !.counter = @ + 1],
          nonterminal |-> NonterminalName(name, IntToStr(b.counter), b.instance_id)]

T_choice == <<"c", "h", "o", "i", "c", "e">>
T_regex == <<"r", "e", "g", "e", "x">>
T_schema == <<"s", "c", "h", "e", "m", "a">>
T_str == <<"s", "t", "r">>

Defines == <<" ", ":", ":", "=", " ">>

\* f"{nonterminal} ::= {rhs};"
Rule(nonterminal, rhs) == nonterminal \o Defines \o rhs \o <<";">>

\* _add_extractor, with create_extractor and create_rule applied to the
\* nonterminal: kind and arg make the extractor, rhs the rule's right side
add_extractor(b, capture_name, extractor_type, kind, arg, rhs) ==
    LET r == create_nonterminal(b, capture_name, extractor_type)
    IN  IF r.err # "ok"
        THEN [err |-> r.err, b |-> r.b, extractor |-> None]
        ELSE LET e == Extractor(kind, capture_name, r.nonterminal, arg)
             IN  [err |-> "ok",
                  b |-> [r.b EXCEPT
                           !.nonterminal_to_extractor = DictSet(@, r.nonterminal, e),
                           !.rules = Append(@, Rule(r.nonterminal, rhs))],
                  extractor |-> e]

Bar == <<" ", "|", " ">>

\* choose(*literals, capture_name=...): the operands are plain strings
choose(b, literals, capture_name) ==
    LET alternatives == Join(MapRepr(literals), Bar)
    IN  add_extractor(b, capture_name, T_choice, "choice", alternatives, alternatives)

\* regex(regex, capture_name=...)
regex(b, pattern, capture_name) ==
    add_extractor(b, capture_name, T_regex, "regex", pattern, <<"#">> \o Repr(pattern))

\* grammar_generator.generate(schema, nonterminal) without the rule's name
SchemaRhs == <<"j", "s", "o", "n">>

\* schema(schema, grammar_generator, capture_name=...)
schema(b, capture_name) ==
    add_extractor(b, capture_name, T_schema, "schema", <<>>, SchemaRhs)

Parenthesised(s) == <<"(">> \o s \o <<")">>

AnyString == <<".", "*">>
AnyStringRule == <<"#", "'", ".", "*", "'">>
Lazy == <<".", "*", "?", "(", "?", ":">>
ExceptBang == <<"e", "x", "c", "e", "p", "t", "!">>
ExceptedSuffix == <<"_", "e", "x", "c", "e", "p", "t", "e", "d">>

\* str(stop=..., not_contain=..., capture_name=...), stop and not_contain
\* already normalised to lists (lines 307-308)
str(b, stop, not_contain, capture_name) ==
    LET r == create_nonterminal(b, capture_name, T_str)
    IN  IF r.err # "ok"
        THEN [err |-> r.err, b |-> r.b, extractor |-> None]
        ELSE LET nonterminal == r.nonterminal
                 plain == stop = <<>> /\ not_contain = <<>>
                 both == MapRepr(stop \o not_contain)
                 capture_regex ==
                     IF plain THEN AnyString
                     ELSE Lazy \o Join(both, <<"|">>) \o <<")">>
                 excepted == nonterminal \o ExceptedSuffix
                 end == IF stop # <<>>
                        THEN Parenthesised(Join(MapRepr(stop), <<"|">>))
                        ELSE <<>>
                 nonterminal_regex ==
                     IF plain THEN AnyStringRule
                     ELSE ExceptBang \o Parenthesised(excepted) \o end
                 rules1 == IF plain THEN r.b.rules
                           ELSE Append(r.b.rules, Rule(excepted, Join(both, Bar)))
                 e == RegexExtractor(capture_regex, capture_name, nonterminal)
             IN  [err |-> "ok",
                  b |-> [r.b EXCEPT
                           !.rules = Append(rules1, Rule(nonterminal, nonterminal_regex)),
                           !.nonterminal_to_extractor = DictSet(@, nonterminal, e)],
                  extractor |-> e]

(***************************************************************************)
(* append_str: the template scanner.  A scan state holds the locals of the *)
(* call (state, last), the two lists the call appends to, whether the call *)
(* is still running (ok) and the names it looked up in the index.          *)
(***************************************************************************)
ScanStart(main_rule, extractors) ==
    [state |-> "normal", last |-> 0, main_rule |-> main_rule,
     extractors |-> extractors, ok |-> TRUE, lookups |-> <<>>]

\* string[lo:hi]
Slice(string, lo, hi) == SubSeq(string, lo + 1, hi)

\* the nested append_literal(end)
append_literal(st, string, end) ==
    IF st.last < end
    THEN LET literal == Slice(string, st.last, end)
         IN  [st EXCEPT !.main_rule = Append(@, Repr(literal)),
                        !.extractors = Append(@, LiteralExtractor(literal))]
    ELSE st

\* one iteration of the loop, on string[i] (i counts from 0)
ScanChar(st, string, i, index) ==
    LET char == string[i + 1]
    IN  IF char = "$"
        THEN IF st.state # "escaped"
             THEN [st EXCEPT !.state = "dollar"]
             ELSE [st EXCEPT !.state = "normal"]
        ELSE IF st.state = "dollar"
        THEN IF char = "{"
             THEN [append_literal(st, string, i - 1) EXCEPT
                     !.last = i + 1, !.state = "left_bracket"]
             ELSE [st EXCEPT !.state = "normal"]
        ELSE IF st.state = "left_bracket"
        THEN IF char = "}"
             THEN LET name == Slice(string, st.last, i)
                      st1 == [st EXCEPT !.state = "normal",
                                        !.main_rule = Append(@, name),
                                        !.lookups = Append(@, name)]
                  IN  IF name \in DOMAIN index
                      THEN [st1 EXCEPT !.extractors = Append(@, index[name]),
                                       !.last = i + 1]
                      ELSE [st1 EXCEPT !.ok = FALSE]
             ELSE st
        ELSE IF char = "\\"
        THEN [st EXCEPT !.state = "escaped"]
        ELSE [st EXCEPT !.state = "normal"]

RECURSIVE ScanFrom(_, _, _, _)
ScanFrom(st, string, i, index) ==
    IF ~st.ok \/ i >= Len(string) THEN st
    ELSE ScanFrom(ScanChar(st, string, i, index), string, i + 1, index)

\* append_str(string) on a builder whose extractor list holds `extractors`:
\* the scan state when the call returns or raises KeyError
append_str(b, extractors, string) ==
    LET st == ScanFrom(ScanStart(b.main_rule, extractors), string, 0,
                       b.nonterminal_to_extractor)
    IN  IF st.ok THEN append_literal(st, string, Len(string)) ELSE st

(***************************************************************************)
(* append_multiline_str: str.find, two slices and textwrap.dedent, then    *)
(* append_str.  dedent is the standard library's: lines of spaces and tabs *)
(* only become empty, and the longest whitespace prefix common to the      *)
(* other lines is removed from each of them.                               *)
(***************************************************************************)
Newline == "\n"

Whitespace == {" ", "\t"}

\* lines.find('\n'): the index (from 0) of the first newline at or after
\* position i, or -1
RECURSIVE FindFrom(_, _)
FindFrom(lines, i) ==
    IF i >= Len(lines) THEN -1
    ELSE IF lines[i + 1] = Newline THEN i
    ELSE FindFrom(lines, i + 1)

find(lines) == FindFrom(lines, 0)

\* text.split('\n')
RECURSIVE SplitLines(_)
SplitLines(text) ==
    LET first == find(text)
    IN  IF first = -1 THEN <<text>>
        ELSE <<Slice(text, 0, first)>> \o SplitLines(Slice(text, first + 1, Len(text)))

IsBlank(line) == \A i \in 1..Len(line) : line[i] \in Whitespace

\* the leading spaces and tabs of a line
RECURSIVE Indent(_)
Indent(line) ==
    IF line = <<>> \/ Head(line) \notin Whitespace THEN <<>>
    ELSE <<Head(line)>> \o Indent(Tail(line))

RECURSIVE CommonPrefix(_, _)
CommonPrefix(s, t) ==
    IF s = <<>> \/ t = <<>> \/ Head(s) # Head(t) THEN <<>>
    ELSE <<Head(s)>> \o CommonPrefix(Tail(s), Tail(t))

\* the margin of dedent: the common prefix of the indents of the lines that
\* are not blank, starting from the first of them
RECURSIVE Margin(_, _, _)
Margin(lines, margin, started) ==
    IF lines = <<>> THEN margin
    ELSE IF IsBlank(Head(lines)) THEN Margin(Tail(lines), margin, started)
    ELSE Margin(Tail(lines),
                IF started THEN CommonPrefix(margin, Indent(Head(lines)))
                ELSE Indent(Head(lines)),
                TRUE)

dedent(text) ==
    LET lines == SplitLines(text)
        margin == Margin(lines, <<>>, FALSE)
    IN  Join([i \in 1..Len(lines) |->
                 IF IsBlank(lines[i]) THEN <<>>
                 ELSE SubSeq(lines[i], Len(margin) + 1, Len(lines[i]))],
             <<Newline>>)

\* the text append_multiline_str(lines) hands to append_str
multiline_text(lines) ==
    LET first == find(lines)
    IN  Slice(lines, 0, first + 1) \o dedent(Slice(lines, first + 1, Len(lines)))

(***************************************************************************)
(* The engine (kbnf.Engine) and the decode callback are the caller's.  The  *)
(* model's engine matches the decoded text of the tokens, character by     *)
(* character, against the language of the start rule: one set of allowed   *)
(* characters per position.  It finishes when the last position is matched.*)
(* What it answers to a token offered after that is not fixed by its       *)
(* interface: after_finish is the engine's choice, made when it is built.  *)
(***************************************************************************)
Vocabulary == <<<<"1">>, <<"2">>, <<"-">>>>

TokenIds == 1..Len(Vocabulary)

\* the decode callback: the texts of the tokens, concatenated
RECURSIVE Decode(_)
Decode(token_ids) ==
    IF token_ids = <<>> THEN <<>>
    ELSE Vocabulary[Head(token_ids)] \o Decode(Tail(token_ids))

DigitPattern == <<"[", "0", "-", "9", "]">>

\* the language of one extractor's grammar fragment
FragmentShape(e) ==
    CASE e.kind = "literal" -> [i \in 1..Len(e.arg) |-> {e.arg[i]}]
      [] e.kind = "regex" /\ e.arg = DigitPattern -> <<Digits>>

RECURSIVE StartShape(_)
StartShape(extractors) ==
    IF extractors = <<>> THEN <<>>
    ELSE FragmentShape(Head(extractors)) \o StartShape(Tail(extractors))

\* Engine(grammar_str, vocabulary, config); start is the sequence of fragments
\* the start rule of grammar_str names
Engine(grammar_str, start, after_finish) ==
    [grammar |-> grammar_str, start |-> start, after_finish |-> after_finish,
     pos |-> 0, finished |-> FALSE]

Fits(engine, text) ==
    LET shape == StartShape(engine.start)
    IN  /\ engine.pos + Len(text) <= Len(shape)
        /\ \A i \in 1..Len(text) : text[i] \in shape[engine.pos + i]

\* feed the engine a text: the engine after it and its status
EngineFeed(engine, text) ==
    IF engine.finished
    THEN [engine |-> engine, result |-> engine.after_finish]
    ELSE IF Fits(engine, text)
    THEN LET pos == engine.pos + Len(text)
             done == pos = Len(StartShape(engine.start))
         IN  [engine |-> [engine EXCEPT !.pos = pos, !.finished = done],
              result |-> IF done THEN "Finished" ELSE "Accepted"]
    ELSE [engine |-> engine, result |-> "Rejected"]

try_accept_new_token(engine, token_id) == EngineFeed(engine, Vocabulary[token_id])

try_accept_new_bytes(engine, bytes) == EngineFeed(engine, bytes)

is_finished(engine) == engine.finished

EngineReset(engine) == [engine EXCEPT !.pos = 0, !.finished = FALSE]

(***************************************************************************)
(* Extraction (extractor.py).                                              *)
(***************************************************************************)
IsPrefix(p, s) == Len(p) <= Len(s) /\ SubSeq(s, 1, Len(p)) = p

Drop(s, n) == SubSeq(s, n + 1, Len(s))

\* the alternatives of a pattern .*?(?:A|B): the texts between the bars, every
\* character of them standing for itself
RECURSIVE SplitBars(_)
SplitBars(text) ==
    IF \A i \in 1..Len(text) : text[i] # "|" THEN <<text>>
    ELSE LET bar == CHOOSE i \in 1..Len(text) :
                       text[i] = "|" /\ \A j \in 1..(i - 1) : text[j] # "|"
         IN  <<SubSeq(text, 1, bar - 1)>> \o SplitBars(SubSeq(text, bar + 1, Len(text)))

RegexAlternatives(pattern) == SplitBars(SubSeq(pattern, Len(Lazy) + 1, Len(pattern) - 1))

\* where re.match(".*?(?:A|B)", text) ends: after the first alternative that
\* fits at the earliest position where one fits; -1 when none fits anywhere
LazyMatchEnd(alternatives, text) ==
    LET fits(n, k) == IsPrefix(alternatives[k], Drop(text, n))
        starts == {n \in 0..Len(text) : \E k \in 1..Len(alternatives) : fits(n, k)}
    IN  IF starts = {} THEN -1
        ELSE LET n == CHOOSE m \in starts : \A o \in starts : m <= o
                 k == CHOOSE j \in 1..Len(alternatives) :
                         fits(n, j) /\ \A i \in 1..(j - 1) : ~fits(n, i)
             IN  n + Len(alternatives[k])

\* matcher.extract(text): the text left and the value captured, or a failure
extract(matcher, text) ==
    CASE matcher.kind = "literal" ->
           IF IsPrefix(matcher.arg, text)
           THEN [ok |-> TRUE, rest |-> Drop(text, Len(matcher.arg)),
                 captured |-> matcher.arg]
           ELSE [ok |-> FALSE, rest |-> text, captured |-> <<>>]
      [] matcher.kind = "regex" /\ matcher.arg = DigitPattern ->
           IF text # <<>> /\ text[1] \in Digits
           THEN [ok |-> TRUE, rest |-> Drop(text, 1), captured |-> <<text[1]>>]
           ELSE [ok |-> FALSE, rest |-> text, captured |-> <<>>]
      [] matcher.kind = "regex" /\ matcher.arg = AnyString ->
           [ok |-> TRUE, rest |-> <<>>, captured |-> text]
      [] matcher.kind = "regex" /\ IsPrefix(Lazy, matcher.arg) ->
           LET end == LazyMatchEnd(RegexAlternatives(matcher.arg), text)
           IN  IF end >= 0
               THEN [ok |-> TRUE, rest |-> Drop(text, end),
                     captured |-> SubSeq(text, 1, end)]
               ELSE [ok |-> FALSE, rest |-> text, captured |-> <<>>]

(***************************************************************************)
(* Formatter.                                                              *)
(***************************************************************************)
\* a captured string, and a Python list of captured values
Scalar(text) == [list |-> FALSE, text |-> text, items |-> <<>>]

ListOf(items) == [list |-> TRUE, text |-> <<>>, items |-> items]

\* Formatter.__init__
Formatter(extractors, engine, grammar_str) ==
    [extractors |-> extractors, engine |-> engine, token_ids |-> <<>>,
     grammar_str |-> grammar_str, captures |-> EmptyDict]

\* lines 131-136: what one captured value does to the capture map
Capture(captures, capture_name, captured) ==
    IF capture_name = None \/ capture_name = <<>> THEN captures
    ELSE IF capture_name \in DOMAIN captures
    THEN DictSet(captures, capture_name,
                 ListOf(<<captures[capture_name], Scalar(captured)>>))
    ELSE DictSet(captures, capture_name, Scalar(captured))

\* on_completion(generated_output) over the extractors from the i-th on: the
\* capture map when the pass ends, and whether it ended by an extractor failing
RECURSIVE on_completion(_, _, _)
on_completion(extractors, captures, generated_output) ==
    IF extractors = <<>> THEN [captures |-> captures, ok |-> TRUE]
    ELSE LET matcher == Head(extractors)
             r == extract(matcher, generated_output)
         IN  IF ~r.ok THEN [captures |-> captures, ok |-> FALSE]
             ELSE on_completion(Tail(extractors),
                                Capture(captures, matcher.capture_name, r.captured),
                                r.rest)

\* accept_token(token_id) on a Formatter whose extractor list holds
\* `extractors`: the Formatter after it, the status returned, and whether the
\* call returned (ok) or raised out of the extraction pass
accept_token(f, extractors, token_id) ==
    LET r == try_accept_new_token(f.engine, token_id)
        token_ids == Append(f.token_ids, token_id)
        f1 == [f EXCEPT !.engine = r.engine, !.token_ids = token_ids]
    IN  IF r.result = "Finished"
        THEN LET pass == on_completion(extractors, f.captures, Decode(token_ids))
             IN  [f |-> [f1 EXCEPT !.captures = pass.captures],
                  result |-> r.result, ok |-> pass.ok, extracted |-> TRUE]
        ELSE [f |-> f1, result |-> r.result, ok |-> TRUE, extracted |-> FALSE]

\* accept_bytes(_bytes)
accept_bytes(f, bytes) ==
    [f EXCEPT !.engine = try_accept_new_bytes(f.engine, bytes).engine]

\* is_completed()
is_completed(f) == is_finished(f.engine)

\* reset() that forgets to clear the token buffer
reset_keeps_tokens(f) ==
    [f EXCEPT !.captures = EmptyDict, !.engine = EngineReset(f.engine)]

\* reset()
reset(f) ==
    [f EXCEPT !.captures = EmptyDict,
              !.engine = EngineReset(f.engine),
              !.token_ids = <<>>]

(***************************************************************************)
(* build.                                                                  *)
(***************************************************************************)
StartDefines == <<"s", "t", "a", "r", "t">> \o Defines

\* line 335: the start rule
StartRule(b) == StartDefines \o Join(b.main_rule, <<" ">>) \o <<";">>

\* lines 334-335: rules = copy(self._rules); rules.append(start): the builder
\* after it, and the local list
RulesWithStart(b) == [b |-> b, rules |-> Append(b.rules, StartRule(b))]

\* the list itself in place of a copy of it
CopyListShared(heap, addr) == [heap |-> heap, addr |-> addr]

\* copy(a_list): the heap with the new list object, and its address
CopyList(heap, addr) ==
    [heap |-> Append(heap, heap[addr]), addr |-> Len(heap) + 1]

\* lines 334-340: build past its assertion
build_formatter(b, heap, after_finish) ==
    LET local == RulesWithStart(b)
        grammar_str == Join(local.rules, <<"\n">>)
        engine == Engine(grammar_str, heap[b.extractors], after_finish)
        copied == CopyList(heap, local.b.extractors)
    IN  [err |-> "ok", b |-> local.b, heap |-> copied.heap, engines |-> 1,
         formatter |-> Formatter(copied.addr, engine, grammar_str)]

\* build without the assertion of line 333
build_unchecked(b, heap, after_finish) == build_formatter(b, heap, after_finish)

\* build(vocabulary, decode) with an engine that answers after_finish once it
\* has finished: the error or the new Formatter, the builder and the heap
\* after the call, and how many engines it constructed
build(b, heap, after_finish) ==
    IF Len(b.main_rule) = 0
    THEN [err |-> "EmptyTemplate", b |-> b, heap |-> heap, engines |-> 0,
          formatter |-> None]
    ELSE build_formatter(b, heap, after_finish)

(***************************************************************************)
(* The state machine.  Every API call is one action; `call` records it.    *)
(***************************************************************************)
Call(op, target, err, arg, pre, pre_list, lookups, result, extracted) ==
    [op |-> op, target |-> target, err |-> err, arg |-> arg, pre |-> pre,
     pre_list |-> pre_list, lookups |-> lookups, result |-> result,
     extracted |-> extracted, passed |-> <<>>,
     pre_engines |-> engines_constructed, pre_formatters |-> formatters]

NoCall ==
    [op |-> "none", target |-> 0, err |-> "ok", arg |-> <<>>, pre |-> None,
     pre_list |-> <<>>, lookups |-> <<>>, result |-> "none", extracted |-> FALSE,
     passed |-> <<>>, pre_engines |-> 0, pre_formatters |-> <<>>]

BuilderCall(op, i, err, arg, lookups) ==
    Call(op, i, err, arg, builders[i], lists[builders[i].extractors], lookups,
         "none", FALSE)

FormatterCall(op, f, err, arg, result, extracted) ==
    [Call(op, f, err, arg, None, <<>>, <<>>, result, extracted)
        EXCEPT !.pre_formatters = <<>>]

Ref(name) == <<"$", "{">> \o name \o <<"}">>

\* a name that no combinator call has declared
Undeclared == <<"n", "o">>

CaptureNames == {None, <<"x">>, <<"x", "_", "1">>, <<"1", "x">>}

\* (stop, not_contain) of the str calls
StrArgs == {<<<<>>, <<>>>>, <<<<<<";">>>>, <<<<"!">>>>>>}

AfterFinish == {"Rejected", "Finished"}

\* FormatterBuilder() by one thread, start to end
NewBuilder ==
    /\ Len(builders) < MaxBuilders
    /\ builders' = Append(builders,
                          FormatterBuilder(formatter_builder_counter, Len(lists) + 1))
    /\ lists' = Append(lists, <<>>)
    /\ formatter_builder_counter' = formatter_builder_counter + 1
    /\ call' = Call("FormatterBuilder", Len(builders) + 1, "ok", <<>>, None, <<>>,
                    <<>>, "none", FALSE)
    /\ UNCHANGED <<formatters, engines_constructed, threads, ghost, kbnf>>

\* the frame of a combinator call on builder i that ended as r
Combinator(op, i, capture_name, r) ==
    /\ builders' = [builders EXCEPT ![i] = r.b]
    /\ call' = BuilderCall(op, i, r.err, capture_name, <<>>)
    /\ UNCHANGED <<formatter_builder_counter, lists, formatters,
                   engines_constructed, threads, ghost, kbnf>>

DoChoose(i, capture_name) ==
    Combinator("choose", i, capture_name,
               choose(builders[i], <<<<"a">>, <<"b">>>>, capture_name))

DoRegex(i, capture_name) ==
    Combinator("regex", i, capture_name,
               regex(builders[i], DigitPattern, capture_name))

DoSchema(i, capture_name) ==
    Combinator("schema", i, capture_name, schema(builders[i], capture_name))

DoStr(i, stop, not_contain, capture_name) ==
    Combinator("str", i, capture_name,
               str(builders[i], stop, not_contain, capture_name))

DoAppendStr(i, string) ==
    LET b == builders[i]
        st == append_str(b, lists[b.extractors], string)
    IN  /\ builders' = [builders EXCEPT ![i].main_rule = st.main_rule]
        /\ lists' = [lists EXCEPT ![b.extractors] = st.extractors]
        /\ call' = BuilderCall("append_str", i,
                               IF st.ok THEN "ok" ELSE "KeyError", string, st.lookups)
        /\ UNCHANGED <<formatter_builder_counter, formatters,
                       engines_constructed, threads, ghost, kbnf>>

\* append_multiline_str(lines): append_str on the text made from lines
DoAppendMultilineStr(i, lines) ==
    LET b == builders[i]
        st == append_str(b, lists[b.extractors], multiline_text(lines))
    IN  /\ builders' = [builders EXCEPT ![i].main_rule = st.main_rule]
        /\ lists' = [lists EXCEPT ![b.extractors] = st.extractors]
        /\ call' = [BuilderCall("append_multiline_str", i,
                                IF st.ok THEN "ok" ELSE "KeyError", lines, st.lookups)
                        EXCEPT !.passed = multiline_text(lines)]
        /\ UNCHANGED <<formatter_builder_counter, formatters,
                       engines_constructed, threads, ghost, kbnf>>

\* whether a Formatter holds both tokens and captures
Residue(f) == f.token_ids # <<>> /\ DOMAIN f.captures # {}

\* what is remembered of a Formatter when build returns it
Built(i, f, heap) ==
    [builder |-> i, built_from |-> builders[i], built_list |-> lists[builders[i].extractors],
     built_extractors |-> heap[f.extractors], built_grammar |-> f.grammar_str,
     passes |-> 0, resets |-> 0,
     pushed |-> <<>>, fresh |-> f, discarded |-> FALSE]

DoBuild(i, after_finish) ==
    LET r == build(builders[i], lists, after_finish)
    IN  /\ builders' = [builders EXCEPT ![i] = r.b]
        /\ lists' = r.heap
        /\ engines_constructed' = engines_constructed + r.engines
        /\ formatters' = IF r.err = "ok" THEN Append(formatters, r.formatter)
                         ELSE formatters
        /\ ghost' = IF r.err = "ok" THEN Append(ghost, Built(i, r.formatter, r.heap))
                    ELSE ghost
        /\ call' = BuilderCall("build", i, r.err, <<>>, <<>>)
        /\ UNCHANGED <<formatter_builder_counter, threads, kbnf>>

(***************************************************************************)
(* Spec: builders made one after the other, and calls on them.             *)
(***************************************************************************)
NoThreads == [t \in {} |-> None]

Init ==
    /\ formatter_builder_counter = 0
    /\ builders = <<>>
    /\ lists = <<>>
    /\ formatters = <<>>
    /\ engines_constructed = 0
    /\ call = NoCall
    /\ threads = NoThreads
    /\ ghost = <<>>
    /\ kbnf = "Rejected"

Names(b) == (DOMAIN b.nonterminal_to_extractor) \cup {Undeclared}

Templates(b) ==
    {<<"a">>}
    \cup {Ref(n) : n \in Names(b)}

\* how much the builders hold: declarations and top-level tokens
RECURSIVE Held(_)
Held(bs) ==
    IF bs = <<>> THEN 0
    ELSE Cardinality(DOMAIN Head(bs).nonterminal_to_extractor)
         + Len(Head(bs).main_rule) + Held(Tail(bs))

\* what the calls so far have left: declarations, tokens and Formatters
Spent == Held(builders) + Len(formatters)

ChooseCall ==
    \E i \in 1..Len(builders), capture_name \in CaptureNames :
        Spent < MaxCalls /\ DoChoose(i, capture_name)

RegexCall ==
    \E i \in 1..Len(builders), capture_name \in CaptureNames :
        Spent < MaxCalls /\ DoRegex(i, capture_name)

SchemaCall ==
    \E i \in 1..Len(builders), capture_name \in CaptureNames :
        Spent < MaxCalls /\ DoSchema(i, capture_name)

StrCall ==
    \E i \in 1..Len(builders), capture_name \in CaptureNames, args \in StrArgs :
        Spent < MaxCalls /\ DoStr(i, args[1], args[2], capture_name)

AppendStrCall ==
    \E i \in 1..Len(builders) :
        /\ Spent < MaxCalls
        /\ \E string \in Templates(builders[i]) : DoAppendStr(i, string)

BuildCall ==
    \E i \in 1..Len(builders) :
        Spent < MaxCalls /\ DoBuild(i, kbnf)

Next ==
    \/ NewBuilder
    \/ ChooseCall
    \/ RegexCall
    \/ SchemaCall
    \/ StrCall
    \/ AppendStrCall
    \/ BuildCall

Spec == Init /\ [][Next]_vars

(***************************************************************************)
(* SpecScan: one append_str call, on every template over the characters    *)
(* the scanner tells apart, up to MaxTemplateLen symbols long.  The symbol *)
(* "N" stands for the nonterminal of the regex declared with capture name  *)
(* x on builder 0, and is written out in the template.                     *)
(***************************************************************************)
Builder0 == FormatterBuilder(0, 1)

DeclaredX == regex(Builder0, DigitPattern, <<"x">>)

XName == DeclaredX.extractor.nonterminal

Symbols == {"\\", "$", "{", "}", "a", "N"}

RECURSIVE Expand(_)
Expand(symbols) ==
    IF symbols = <<>> THEN <<>>
    ELSE (IF Head(symbols) = "N" THEN XName ELSE <<Head(symbols)>>)
         \o Expand(Tail(symbols))

SymbolStrings == UNION {[1..n -> Symbols] : n \in 0..MaxTemplateLen}

\* the builders a scan starts from: nothing declared; x declared; x declared
\* and the template "a" appended
ScanStarts ==
    LET st == append_str(DeclaredX.b, <<>>, <<"a">>)
    IN  {[b |-> Builder0, list |-> <<>>],
         [b |-> DeclaredX.b, list |-> <<>>],
         [b |-> [DeclaredX.b EXCEPT !.main_rule = st.main_rule], list |-> st.extractors]}

InitScan ==
    /\ formatter_builder_counter = 1
    /\ \E start \in ScanStarts : builders = <<start.b>> /\ lists = <<start.list>>
    /\ formatters = <<>>
    /\ engines_constructed = 0
    /\ call = NoCall
    /\ threads = NoThreads
    /\ ghost = <<>>
    /\ kbnf = "Rejected"

\* a template longer than MaxTemplateLen: two backslashes before ${x}
LongTemplates == {<<"\\", "\\", "$", "{", "N", "}">>}

ScanTemplate ==
    /\ call.op = "none"
    /\ \E symbols \in SymbolStrings \cup LongTemplates :
          DoAppendStr(1, Expand(symbols))

\* the characters dedent tells apart
LineSymbols == {" ", "\t", Newline, "a"}

LineStrings == UNION {[1..n -> LineSymbols] : n \in 0..MaxTemplateLen}

MultilineTemplate ==
    /\ call.op = "none"
    /\ \E lines \in LineStrings : DoAppendMultilineStr(1, lines)

NextScan ==
    \/ ScanTemplate
    \/ MultilineTemplate

SpecScan == InitScan /\ [][NextScan]_vars

(***************************************************************************)
(* SpecStr: one str() declaration with a stop or a not_contain list, then  *)
(* its extractor applied to a text: a text its grammar rule admits or not, *)
(* followed by the text of later fragments.  The rule                      *)
(* except!(excepted)(stops) admits a body that contains no stop and no     *)
(* not_contain string, followed by one stop string when there are any.     *)
(***************************************************************************)
MaxTextLen == 3

\* (stop, not_contain) of the bounded str calls
BoundedArgs ==
    {<<<<<<";">>>>, <<>>>>, <<<<<<";">>>>, <<<<"!">>>>>>, <<<<>>, <<<<"!">>>>>>}

TextSymbols == {"a", ";", "!", "'"}

Texts == UNION {[1..n -> TextSymbols] : n \in 0..MaxTextLen}

\* the texts that follow the fragment
Following == {<<>>, <<"!">>, <<";">>}

Contains(text, part) ==
    \E n \in 0..Len(text) : IsPrefix(part, Drop(text, n))

EndsWith(text, part) ==
    Len(part) <= Len(text) /\ Drop(text, Len(text) - Len(part)) = part

Range(seq) == {seq[i] : i \in 1..Len(seq)}

\* the rule of str(stop, not_contain) admits text
Admits(stop, not_contain, text) ==
    LET clean(body) == \A part \in Range(stop \o not_contain) : ~Contains(body, part)
    IN  IF stop = <<>> THEN clean(text)
        ELSE \E part \in Range(stop) :
                /\ EndsWith(text, part)
                /\ clean(SubSeq(text, 1, Len(text) - Len(part)))

InitStr ==
    /\ formatter_builder_counter = 1
    /\ builders = <<Builder0>>
    /\ lists = <<<<>>>>
    /\ formatters = <<>>
    /\ engines_constructed = 0
    /\ call = NoCall
    /\ threads = NoThreads
    /\ ghost = <<>>
    /\ kbnf = "Rejected"

\* a str call; the call record keeps its stop and not_contain lists
DeclareStr ==
    /\ call.op = "none"
    /\ \E args \in BoundedArgs, capture_name \in {None, <<"x">>} :
          LET r == str(builders[1], args[1], args[2], capture_name)
          IN  /\ builders' = [builders EXCEPT ![1] = r.b]
              /\ call' = [BuilderCall("str", 1, r.err, capture_name, <<>>)
                              EXCEPT !.passed = args]
    /\ UNCHANGED <<formatter_builder_counter, lists, formatters,
                   engines_constructed, threads, ghost, kbnf>>

\* one turn of the loop of on_completion (line 130) on the declared extractor
ExtractStr ==
    /\ call.op = "str"
    /\ \E text \in Texts, following \in Following,
          n \in DOMAIN builders[1].nonterminal_to_extractor :
          LET r == extract(builders[1].nonterminal_to_extractor[n], text \o following)
          IN  call' = [BuilderCall("extract", 1, IF r.ok THEN "ok" ELSE "NoMatch",
                                   text, <<>>)
                          EXCEPT !.passed = [stop |-> call.passed[1],
                                             not_contain |-> call.passed[2],
                                             following |-> following,
                                             rest |-> r.rest,
                                             captured |-> r.captured]]
    /\ UNCHANGED <<formatter_builder_counter, builders, lists, formatters,
                   engines_constructed, threads, ghost, kbnf>>

NextStr ==
    \/ DeclareStr
    \/ ExtractStr

SpecStr == InitStr /\ [][NextStr]_vars

(***************************************************************************)
(* SpecConc: FormatterBuilder() called by MaxThreads threads at once.      *)
(* Line 167 reads the class counter; line 168 reads it again, adds one and *)
(* stores it; a thread switch can fall between any two of these.           *)
(***************************************************************************)
Threads == 1..MaxThreads

InitConc ==
    /\ formatter_builder_counter = 0
    /\ builders = <<>>
    /\ lists = <<>>
    /\ formatters = <<>>
    /\ engines_constructed = 0
    /\ call = NoCall
    /\ threads = [t \in Threads |-> [pc |-> "line167", instance_id |-> 0, loaded |-> 0]]
    /\ ghost = <<>>
    /\ kbnf = "Rejected"

\* line 167: self._instance_id = self.__class__._formatter_builder_counter
ReadInstanceId(t) ==
    /\ threads[t].pc = "line167"
    /\ threads' = [threads EXCEPT ![t].pc = "line168_load",
                                  ![t].instance_id = formatter_builder_counter]
    /\ UNCHANGED <<formatter_builder_counter, builders, lists, formatters,
                   engines_constructed, call, ghost, kbnf>>

\* line 168, the read of self.__class__._formatter_builder_counter += 1
LoadCounter(t) ==
    /\ threads[t].pc = "line168_load"
    /\ threads' = [threads EXCEPT ![t].pc = "line168_store",
                                  ![t].loaded = formatter_builder_counter]
    /\ UNCHANGED <<formatter_builder_counter, builders, lists, formatters,
                   engines_constructed, call, ghost, kbnf>>

\* line 168, the store; the constructor returns the builder
StoreCounter(t) ==
    /\ threads[t].pc = "line168_store"
    /\ formatter_builder_counter' = threads[t].loaded + 1
    /\ threads' = [threads EXCEPT ![t].pc = "done"]
    /\ builders' = Append(builders,
                          FormatterBuilder(threads[t].instance_id, Len(lists) + 1))
    /\ lists' = Append(lists, <<>>)
    /\ call' = Call("FormatterBuilder", Len(builders) + 1, "ok", <<>>, None, <<>>,
                    <<>>, "none", FALSE)
    /\ UNCHANGED <<formatters, engines_constructed, ghost, kbnf>>

\* a first declaration on a builder that has returned
DeclareConc ==
    \E i \in 1..Len(builders), capture_name \in {None, <<"x">>} :
        /\ Held(<<builders[i]>>) + builders[i].counter = 0
        /\ DoRegex(i, capture_name)

NextConc ==
    \/ \E t \in Threads : ReadInstanceId(t)
    \/ \E t \in Threads : LoadCounter(t)
    \/ \E t \in Threads : StoreCounter(t)
    \/ DeclareConc

SpecConc == InitConc /\ [][NextConc]_vars

(***************************************************************************)
(* SpecRun: the Formatter built from one builder, driven token by token.   *)
(***************************************************************************)
\* the templates the builder of a run has compiled: x once, twice, three times
RunTemplates ==
    {<<"-">> \o Ref(XName),
     Ref(XName) \o <<"-">> \o Ref(XName),
     Ref(XName) \o Ref(XName) \o Ref(XName)}

\* the builder of a run: x declared by regex, then one template compiled
RunBuilder(string) ==
    LET st == append_str(DeclaredX.b, <<>>, string)
    IN  [b |-> [DeclaredX.b EXCEPT !.main_rule = st.main_rule],
         heap |-> <<st.extractors>>]

\* the builder has returned one Formatter from build()
InitRun ==
    /\ formatter_builder_counter = 1
    /\ kbnf \in AfterFinish
    /\ \E string \in RunTemplates :
          LET r == build(RunBuilder(string).b, RunBuilder(string).heap, kbnf)
          IN  /\ builders = <<r.b>>
              /\ lists = r.heap
              /\ formatters = <<r.formatter>>
              /\ engines_constructed = r.engines
              /\ ghost = <<Built(1, r.formatter, r.heap)>>
    /\ call = NoCall
    /\ threads = NoThreads

RECURSIVE Buffered(_)
Buffered(fs) ==
    IF fs = <<>> THEN 0 ELSE Len(Head(fs).token_ids) + Buffered(Tail(fs))

BuildRun ==
    /\ Len(formatters) < MaxFormatters
    /\ DoBuild(1, kbnf)

\* a builder call made after a Formatter was built
LateAppendStr ==
    /\ formatters # <<>>
    /\ Len(builders[1].main_rule) < MaxMainRule
    /\ DoAppendStr(1, Ref(XName))

AcceptToken(f, token_id) ==
    LET r == accept_token(formatters[f], lists[formatters[f].extractors], token_id)
        g == ghost[f]
    IN  /\ Buffered(formatters) < MaxTokens
        /\ formatters' = [formatters EXCEPT ![f] = r.f]
        /\ ghost' = [ghost EXCEPT ![f] =
              [g EXCEPT !.passes = @ + (IF r.extracted THEN 1 ELSE 0),
                        !.pushed = Append(@, token_id),
                        !.fresh = accept_token(@, lists[@.extractors], token_id).f]]
        /\ call' = FormatterCall("accept_token", f,
                                 IF r.ok THEN "ok" ELSE "ExtractionFailed",
                                 <<token_id>>, r.result, r.extracted)
        /\ UNCHANGED <<formatter_builder_counter, builders, lists,
                       engines_constructed, threads, kbnf>>

AcceptBytes(f, bytes) ==
    /\ ~is_completed(formatters[f])
    /\ formatters' = [formatters EXCEPT ![f] = accept_bytes(@, bytes)]
    /\ ghost' = [ghost EXCEPT ![f].fresh = accept_bytes(@, bytes)]
    /\ call' = FormatterCall("accept_bytes", f, "ok", bytes, "none", FALSE)
    /\ UNCHANGED <<formatter_builder_counter, builders, lists,
                   engines_constructed, threads, kbnf>>

\* what a Formatter just built from the same grammar and extractor list is
Fresh(f) ==
    Formatter(f.extractors,
              Engine(f.grammar_str, f.engine.start, f.engine.after_finish),
              f.grammar_str)

\* how many reset() calls the Formatters have had
RECURSIVE Resets(_)
Resets(gs) ==
    IF gs = <<>> THEN 0 ELSE Head(gs).resets + Resets(Tail(gs))

Reset(f) ==
    /\ Resets(ghost) < MaxResets
    /\ formatters' = [formatters EXCEPT ![f] = reset(@)]
    /\ ghost' = [ghost EXCEPT ![f].resets = @ + 1, ![f].passes = 0,
                              ![f].pushed = <<>>, ![f].fresh = Fresh(formatters[f]),
                              ![f].discarded = Residue(formatters[f])]
    /\ call' = FormatterCall("reset", f, "ok", <<>>, "none", FALSE)
    /\ UNCHANGED <<formatter_builder_counter, builders, lists,
                   engines_constructed, threads, kbnf>>

AcceptTokenCall ==
    \E f \in 1..Len(formatters), token_id \in TokenIds : AcceptToken(f, token_id)

AcceptBytesCall == \E f \in 1..Len(formatters) : AcceptBytes(f, <<"1">>)

ResetCall == \E f \in 1..Len(formatters) : Reset(f)

\* accept_token with the tokens the template is made of, "-" and "1"
AcceptTemplateToken ==
    \E f \in 1..Len(formatters) :
        \E token_id \in {t \in TokenIds : Vocabulary[t] \in {<<"-">>, <<"1">>}} :
            AcceptToken(f, token_id)

NextRun ==
    \/ AcceptTokenCall
    \/ AcceptBytesCall
    \/ ResetCall

SpecRun == InitRun /\ [][NextRun]_vars

(***************************************************************************)
(* SpecBuild: one builder built several times, with builder calls and      *)
(* Formatter calls in between.                                             *)
(***************************************************************************)
InitBuild ==
    /\ formatter_builder_counter = 1
    /\ builders = <<RunBuilder(<<"-">> \o Ref(XName)).b>>
    /\ lists = RunBuilder(<<"-">> \o Ref(XName)).heap
    /\ formatters = <<>>
    /\ engines_constructed = 0
    /\ call = NoCall
    /\ threads = NoThreads
    /\ ghost = <<>>
    /\ kbnf = "Rejected"

NextBuild ==
    \/ BuildRun
    \/ LateAppendStr
    \/ AcceptTemplateToken
    \/ ResetCall

SpecBuild == InitBuild /\ [][NextBuild]_vars

(***************************************************************************)
(* Properties.                                                             *)
(***************************************************************************)
\* the name a rule text defines: the text before " ::= "
RECURSIVE RuleName(_)
RuleName(rule) ==
    IF rule = <<>> \/ Head(rule) = " " THEN <<>>
    ELSE <<Head(rule)>> \o RuleName(Tail(rule))

IsExcepted(name) ==
    /\ Len(name) >= Len(ExceptedSuffix)
    /\ SubSeq(name, Len(name) - Len(ExceptedSuffix) + 1, Len(name)) = ExceptedSuffix

RECURSIVE RuleNames(_)
RuleNames(rules) ==
    IF rules = <<>> THEN <<>> ELSE <<RuleName(Head(rules))>> \o RuleNames(Tail(rules))

RECURSIVE RuleNamesOf(_)
RuleNamesOf(bs) ==
    IF bs = <<>> THEN <<>> ELSE RuleNames(Head(bs).rules) \o RuleNamesOf(Tail(bs))

\* every rule name emitted, builder by builder
AllRuleNames == RuleNamesOf(builders)

Combinators == {"choose", "regex", "schema", "str"}

\* the values the extractors that carry capture_name take from text, in order
RECURSIVE Occurrences(_, _, _)
Occurrences(extractors, text, capture_name) ==
    IF extractors = <<>> THEN <<>>
    ELSE LET r == extract(Head(extractors), text)
         IN  (IF Head(extractors).capture_name = capture_name
              THEN <<Scalar(r.captured)>> ELSE <<>>)
             \o Occurrences(Tail(extractors), r.rest, capture_name)

CarriedNames(extractors) ==
    {extractors[i].capture_name : i \in 1..Len(extractors)} \ {None}

\* the first extraction pass of a cycle has just run to its end on Formatter f
PassRan(f) ==
    /\ call.op = "accept_token"
    /\ call.target = f
    /\ call.extracted
    /\ call.err = "ok"
    /\ ghost[f].passes = 1

\* C1: after the extraction pass, for every capture name carried by k >= 1
\* extractors, captures[name] is the captured value itself when k = 1 and one
\* flat list of the k values in occurrence order when k >= 2.
C1_FlatListOfOccurrences ==
    \A f \in 1..Len(formatters) :
        PassRan(f) =>
            LET extractors == lists[formatters[f].extractors]
                text == Decode(formatters[f].token_ids)
            IN  \A name \in CarriedNames(extractors) :
                    LET values == Occurrences(extractors, text, name)
                    IN  /\ name \in DOMAIN formatters[f].captures
                        /\ formatters[f].captures[name] =
                              IF Len(values) = 1 THEN values[1] ELSE ListOf(values)

\* the tokens and the extractors an append_str call added
AppendedTokens == SubSeq(builders[call.target].main_rule,
                         Len(call.pre.main_rule) + 1,
                         Len(builders[call.target].main_rule))

AppendedExtractors == SubSeq(lists[call.pre.extractors],
                             Len(call.pre_list) + 1,
                             Len(lists[call.pre.extractors]))

EscapedPlaceholder == <<"\\">> \o Ref(XName)

\* C2: append_str on a backslash followed by ${x} appends exactly one literal
\* fragment whose text is ${x}, without the backslash, appends no placeholder
\* reference and never looks x up, whether or not x is declared.
C2_EscapedPlaceholderIsLiteral ==
    (call.op = "append_str" /\ call.arg = EscapedPlaceholder) =>
        /\ call.err = "ok"
        /\ AppendedTokens = <<Repr(Ref(XName))>>
        /\ AppendedExtractors = <<LiteralExtractor(Ref(XName))>>
        /\ call.lookups = <<>>

\* C3: an append_str call that meets an unresolved ${name} fails and leaves
\* the builder as it was before the call.
C3_UnresolvedLeavesBuilder ==
    (call.op = "append_str" /\ \E i \in 1..Len(call.lookups) :
                                  call.lookups[i] \notin DOMAIN call.pre.nonterminal_to_extractor) =>
        /\ call.err = "KeyError"
        /\ builders[call.target] = call.pre
        /\ lists[call.pre.extractors] = call.pre_list

\* the last call was a combinator call with a capture name that is no
\* identifier or is already in the builder's capture-name set
RejectedName ==
    /\ call.op \in Combinators
    /\ call.arg # None
    /\ ~isidentifier(call.arg) \/ call.arg \in call.pre.capture_names

\* C4: a combinator call whose capture name is not an identifier or is already
\* registered fails with the builder (rules, extractors, sequence, index,
\* capture names, counter) as before the call; so no capture name is carried
\* by two declarations of one builder.
C4_RejectedNameLeavesBuilder ==
    /\ RejectedName =>
          /\ call.err \in {"InvalidCaptureName", "DuplicateCaptureName"}
          /\ builders[call.target] = call.pre
          /\ lists[call.pre.extractors] = call.pre_list
          /\ formatters = call.pre_formatters
    /\ \A i \in 1..Len(builders) :
          LET index == builders[i].nonterminal_to_extractor
              declared == {r \in 1..Len(builders[i].rules) :
                              ~IsExcepted(RuleName(builders[i].rules[r]))}
          IN  /\ \A n, m \in DOMAIN index :
                    (index[n].capture_name = index[m].capture_name
                     /\ index[n].capture_name # None) => n = m
              /\ Cardinality(declared) = Cardinality(DOMAIN index)

C4_Witness ==
    /\ RejectedName
    /\ call.err = "DuplicateCaptureName"
    /\ call.op = "str"
    /\ Len(call.pre.rules) > 0

\* C5: every rule name emitted into any builder's rules (an extractor's
\* nonterminal, or the _excepted rule of str) differs from every other rule
\* name of that builder and of every other builder, and each nonterminal maps
\* to exactly one extractor.
C5_RuleNamesUnique ==
    /\ \A i, j \in 1..Len(AllRuleNames) :
          AllRuleNames[i] = AllRuleNames[j] => i = j
    /\ \A i \in 1..Len(builders) :
          LET index == builders[i].nonterminal_to_extractor
              names == {RuleName(builders[i].rules[r]) : r \in 1..Len(builders[i].rules)}
          IN  /\ \A n \in DOMAIN index : index[n].nonterminal = n
              /\ DOMAIN index = {n \in names : ~IsExcepted(n)}
              /\ Cardinality(DOMAIN index) + Cardinality({n \in names : IsExcepted(n)})
                    = Len(builders[i].rules)

C5_Witness ==
    /\ Len(builders) = 2
    /\ \E n \in DOMAIN builders[1].nonterminal_to_extractor,
          m \in DOMAIN builders[2].nonterminal_to_extractor :
          /\ builders[1].nonterminal_to_extractor[n].capture_name = <<"x", "_", "1">>
          /\ builders[2].nonterminal_to_extractor[m].capture_name = <<"x", "_", "1">>
          /\ n # m
          /\ Len(builders[1].rules) = 2
          /\ Len(builders[2].rules) = 2

\* C6: builders constructed by concurrent threads get distinct instance ids,
\* the counter ends at the number of builders constructed, and declarations
\* on different builders never get equal nonterminals.
C6_ConcurrentIdsDistinct ==
    /\ \A i, j \in 1..Len(builders) :
          builders[i].instance_id = builders[j].instance_id => i = j
    /\ (\A t \in DOMAIN threads : threads[t].pc = "done") =>
          formatter_builder_counter = Len(builders)
    /\ \A i, j \in 1..Len(builders) :
          i # j => (DOMAIN builders[i].nonterminal_to_extractor)
                   \cap (DOMAIN builders[j].nonterminal_to_extractor) = {}

\* C7: reset() empties the capture map and the token buffer and resets the
\* engine; after a reset the token buffer is exactly the tokens pushed since,
\* and the capture map (and the engine) are those of a Formatter freshly built
\* and given the same tokens.
C7_ResetLeavesNoResidue ==
    \A f \in 1..Len(formatters) :
        /\ (call.op = "reset" /\ call.target = f) =>
              /\ formatters[f].captures = EmptyDict
              /\ formatters[f].token_ids = <<>>
              /\ formatters[f].engine.pos = 0
              /\ ~is_completed(formatters[f])
        /\ ghost[f].resets > 0 =>
              /\ formatters[f].token_ids = ghost[f].pushed
              /\ formatters[f].captures = ghost[f].fresh.captures
              /\ formatters[f].engine = ghost[f].fresh.engine

C7_Witness ==
    \E f \in 1..Len(formatters) :
        /\ ghost[f].resets = 1
        /\ ghost[f].discarded
        /\ ghost[f].passes = 1
        /\ Len(formatters[f].token_ids) = 2
        /\ DOMAIN formatters[f].captures # {}

\* C8: within one cycle the extraction pass runs at most once, whatever
\* accept_token calls follow the one that returned Finished.
C8_OnePassPerCycle ==
    \A f \in 1..Len(formatters) : ghost[f].passes <= 1

\* C9: build() on a builder whose top-level sequence is empty fails with the
\* empty-template error, constructs no engine, creates no Formatter and
\* leaves the builder as it was.
C9_EmptyBuildFails ==
    (call.op = "build" /\ Len(call.pre.main_rule) = 0) =>
        /\ call.err = "EmptyTemplate"
        /\ engines_constructed = call.pre_engines
        /\ formatters = call.pre_formatters
        /\ builders[call.target] = call.pre
        /\ lists[call.pre.extractors] = call.pre_list

C9_Witness ==
    /\ call.op = "build"
    /\ call.err = "EmptyTemplate"
    /\ Len(call.pre.rules) > 0

\* C10: build() leaves the builder as it was; two Formatters built from the
\* same builder state have the same grammar text and equal extractor
\* sequences in lists of their own; each Formatter's token buffer holds its
\* own pushes only; and no later builder call changes the extractor list or
\* the grammar text of a Formatter built before it.
C10_BuildDoesNotConsume ==
    /\ call.op = "build" =>
          /\ builders[call.target] = call.pre
          /\ lists[call.pre.extractors] = call.pre_list
    /\ \A f \in 1..Len(formatters) :
          /\ lists[formatters[f].extractors] = ghost[f].built_extractors
          /\ ghost[f].built_extractors = ghost[f].built_list
          /\ formatters[f].grammar_str = ghost[f].built_grammar
          /\ formatters[f].token_ids = ghost[f].pushed
          /\ formatters[f].extractors # builders[ghost[f].builder].extractors
    /\ \A f, g \in 1..Len(formatters) :
          /\ f # g => formatters[f].extractors # formatters[g].extractors
          /\ (ghost[f].built_from = ghost[g].built_from
              /\ ghost[f].built_list = ghost[g].built_list) =>
                /\ formatters[f].grammar_str = formatters[g].grammar_str
                /\ lists[formatters[f].extractors] = lists[formatters[g].extractors]

C10_Witness ==
    /\ Len(formatters) = 2
    /\ ghost[1].built_from = ghost[2].built_from
    /\ ghost[1].built_list = ghost[2].built_list
    /\ builders[1] # ghost[1].built_from
    /\ lists[builders[1].extractors] # ghost[1].built_list
    /\ formatters[1].token_ids # <<>>
    /\ formatters[2].token_ids = <<>>
    /\ DOMAIN formatters[1].captures # {}

\* C11: the text append_multiline_str hands to the scanner has as many lines
\* as the input; its first line, when not blank, is the input's first line,
\* leading whitespace included, also when the input has no newline; each
\* later line is empty if it was blank and has lost the common leading
\* whitespace of the later lines otherwise.
C11_FirstLinePreserved ==
    call.op = "append_multiline_str" =>
        LET lines == SplitLines(call.arg)
            out == SplitLines(call.passed)
            margin == Margin(Tail(lines), <<>>, FALSE)
        IN  /\ Len(out) = Len(lines)
            /\ ~IsBlank(lines[1]) => out[1] = lines[1]
            /\ \A i \in 2..Len(lines) :
                  out[i] = IF IsBlank(lines[i]) THEN <<>>
                           ELSE SubSeq(lines[i], Len(margin) + 1, Len(lines[i]))

\* C12: for a str() with a stop or a not_contain list and a text, not empty,
\* that its rule admits, the extraction pattern matches at the start, captures exactly
\* that text and leaves what follows it; the captured value ends with a stop
\* string when there are any, and contains no not_contain string.
C12_BoundedStrRoundTrip ==
    (call.op = "extract"
     /\ call.arg # <<>>
     /\ Admits(call.passed.stop, call.passed.not_contain, call.arg)) =>
        /\ call.err = "ok"
        /\ call.passed.captured = call.arg
        /\ call.passed.rest = call.passed.following
        /\ call.passed.stop # <<>> =>
              \E part \in Range(call.passed.stop) : EndsWith(call.passed.captured, part)
        /\ \A part \in Range(call.passed.not_contain) :
              ~Contains(call.passed.captured, part)

\* C13: when an extractor fails in the first extraction pass of a cycle, the
\* pass is aborted and the capture map holds nothing that pass wrote: it is
\* as empty as before the pass.
C13_FailedPassWritesNothing ==
    \A f \in 1..Len(formatters) :
        (call.op = "accept_token" /\ call.target = f /\ call.extracted
         /\ call.err = "ExtractionFailed" /\ ghost[f].passes = 1) =>
            formatters[f].captures = EmptyDict

\* the scanner's state after the first k characters of the template of the
\* last append_str call
StateAfter(k) ==
    ScanFrom(ScanStart(<<>>, <<>>), SubSeq(call.arg, 1, k), 0,
             call.pre.nonterminal_to_extractor).state

DoubleEscaped == <<"\\", "\\">> \o Ref(XName)

\* C14: the escaped state lasts one character: after any character read in
\* the escaped state the scanner is in the normal state; and in a template of
\* two backslashes followed by ${x}, with x declared, ${x} is resolved as a
\* placeholder.
C14_EscapeLastsOneCharacter ==
    call.op = "append_str" =>
        /\ \A k \in 1..Len(call.arg) :
              StateAfter(k - 1) = "escaped" => StateAfter(k) = "normal"
        /\ (call.arg = DoubleEscaped /\ XName \in DOMAIN call.pre.nonterminal_to_extractor) =>
              /\ call.lookups = <<XName>>
              /\ AppendedTokens # <<>>
              /\ AppendedTokens[Len(AppendedTokens)] = XName

DoubleDollar == <<"$">> \o Ref(XName)

\* C15: in the dollar state any character but { brings the scanner back to
\* the normal state; and the template $${x} opens no placeholder: it is
\* appended as one literal and x is not looked up.
C15_DollarThenOtherIsLiteral ==
    call.op = "append_str" =>
        /\ \A k \in 1..Len(call.arg) :
              (StateAfter(k - 1) = "dollar" /\ call.arg[k] # "{") =>
                  StateAfter(k) = "normal"
        /\ call.arg = DoubleDollar =>
              /\ call.lookups = <<>>
              /\ AppendedTokens = <<Repr(DoubleDollar)>>
              /\ AppendedExtractors = <<LiteralExtractor(DoubleDollar)>>

\* C16: on every builder the extractor list and the top-level sequence have
\* the same length, and the i-th extractor is the Literal extractor of the
\* i-th quoted literal or the extractor registered under the i-th name.
C16_ExtractorsMatchSequence ==
    \A b \in 1..Len(builders) :
        LET main_rule == builders[b].main_rule
            extractors == lists[builders[b].extractors]
            index == builders[b].nonterminal_to_extractor
        IN  /\ Len(extractors) = Len(main_rule)
            /\ \A i \in 1..Len(extractors) :
                  IF extractors[i].kind = "literal"
                  THEN main_rule[i] = Repr(extractors[i].arg)
                  ELSE /\ main_rule[i] \in DOMAIN index
                       /\ extractors[i] = index[main_rule[i]]

\* the template text a sequence of appended extractors stands for: literals
\* as their text, any other extractor as ${nonterminal}
RECURSIVE TemplateOf(_)
TemplateOf(extractors) ==
    IF extractors = <<>> THEN <<>>
    ELSE (IF Head(extractors).kind = "literal" THEN Head(extractors).arg
          ELSE Ref(Head(extractors).nonterminal))
         \o TemplateOf(Tail(extractors))

\* C20: a successful append_str loses no template text: the literals it
\* appended, with each placeholder written back as ${name}, give the template.
C20_NoTemplateTextLost ==
    (call.op = "append_str" /\ call.err = "ok") =>
        TemplateOf(AppendedExtractors) = call.arg

Statuses == {"Accepted", "Rejected", "Finished"}

\* C17: accept_token(id) returns the engine's status for id, one of Accepted,
\* Rejected and Finished, as a value and not as a fault, with id the last
\* token of the buffer, and runs the extraction pass if and only if that
\* status is Finished.
C17_StatusReturnedPassIffFinished ==
    \A f \in 1..Len(formatters) :
        (call.op = "accept_token" /\ call.target = f) =>
            /\ call.err = "ok"
            /\ call.result \in Statuses
            /\ call.extracted <=> call.result = "Finished"
            /\ formatters[f].token_ids # <<>>
            /\ <<formatters[f].token_ids[Len(formatters[f].token_ids)]>> = call.arg

\* C18: a token the engine rejects leaves the Formatter unchanged: the token
\* buffer is what it was before the call, so it never holds a rejected token.
C18_RejectedTokenNotBuffered ==
    \A f \in 1..Len(formatters) :
        (call.op = "accept_token" /\ call.target = f /\ call.result = "Rejected") =>
            formatters[f].token_ids =
                SubSeq(ghost[f].pushed, 1, Len(ghost[f].pushed) - 1)

\* C19: whenever is_completed() is true the extraction pass has run since
\* the last reset, also when the last input came through accept_bytes.
C19_CompletedMeansExtracted ==
    \A f \in 1..Len(formatters) :
        is_completed(formatters[f]) => ghost[f].passes >= 1

====
